---- MODULE Spec2Model ----
(***************************************************************************)
(* Model of packages/opentelemetry-sdk-workers/src/sdk.ts: the WorkersSDK  *)
(* span factory (start / getSpan) and the per-invocation WorkerInstance    *)
(* (fetch / sendResponse / captureException).                              *)
(*                                                                         *)
(* Strings that the code inspects character by character (header names,   *)
(* query keys and values, URL parts, span names, attribute names) are      *)
(* sequences of one-character strings.  Opaque strings (header values,     *)
(* the request method) are TLA+ strings.  Times are in units of 0.01 ms,   *)
(* so that the 0.01 ms nudge of the end time is the integer 1.             *)
(***************************************************************************)
EXTENDS Integers, Sequences, FiniteSets, TLC

(***************************************************************************)
(* Bounds of the model.                                                    *)
(***************************************************************************)
\* number of fetch / sendResponse / captureException calls on the instance
MaxCalls == 2
\* number of millisecond ticks the clock advances during the run
MaxClock == 1

(***************************************************************************)
(* String literals of the source and of the inputs.                        *)
(***************************************************************************)
sCookie == <<"c","o","o","k","i","e">>
sSetCookie == <<"s","e","t","-","c","o","o","k","i","e">>
sUserAgent == <<"u","s","e","r","-","a","g","e","n","t">>
sCfRay == <<"c","f","-","r","a","y">>
sCfConnectingIp == <<"c","f","-","c","o","n","n","e","c","t","i","n","g","-","i","p">>
sRequestHeaderPrefix ==
    <<"h","t","t","p",".","r","e","q","u","e","s","t",".","h","e","a","d","e","r",".">>
sResponseHeaderPrefix ==
    <<"h","t","t","p",".","r","e","s","p","o","n","s","e",".","h","e","a","d","e","r",".">>
sScheduled == <<"s","c","h","e","d","u","l","e","d"," ">>
sFetch == <<"f","e","t","c","h"," ">>
sInputRequired ==
    "Error: You must provide the request to start for fetch events!"
sInTypeError == "TypeError: Cannot use 'in' operator to search for 'type'"

\* names used by the inputs only
sCookieMixed == <<"C","o","o","k","i","e">>
sSetCookieMixed == <<"S","e","t","-","C","o","o","k","i","e">>
sUserAgentMixed == <<"U","s","e","r","-","A","g","e","n","t">>
sXA == <<"x","-","a">>
sXAUpper == <<"X","-","A">>

(***************************************************************************)
(* String.prototype.toLowerCase, character by character.                   *)
(***************************************************************************)
UpperCase ==
    <<"A","B","C","D","E","F","G","H","I","J","K","L","M",
      "N","O","P","Q","R","S","T","U","V","W","X","Y","Z">>
LowerCase ==
    <<"a","b","c","d","e","f","g","h","i","j","k","l","m",
      "n","o","p","q","r","s","t","u","v","w","x","y","z">>

toLowerChar(c) ==
    IF \E i \in 1..Len(UpperCase) : UpperCase[i] = c
    THEN LowerCase[CHOOSE i \in 1..Len(UpperCase) : UpperCase[i] = c]
    ELSE c

toLowerCase(s) == [i \in 1..Len(s) |-> toLowerChar(s[i])]

(***************************************************************************)
(* Allow-list entries: a string, or a RegExp.  The regular expressions of  *)
(* the model are /.*/ (dotStar) and literal patterns with optional ^ and $ *)
(* anchors and the optional i flag; none carries the g or y flag, so test  *)
(* keeps no state.                                                         *)
(***************************************************************************)
Str(s) == [type |-> "string", value |-> s,
           dotStar |-> FALSE, start |-> FALSE, end |-> FALSE, ignoreCase |-> FALSE]
Re(src, st, en, ic) == [type |-> "RegExp", value |-> src,
           dotStar |-> FALSE, start |-> st, end |-> en, ignoreCase |-> ic]
ReDotStar == [type |-> "RegExp", value |-> <<>>,
           dotStar |-> TRUE, start |-> FALSE, end |-> FALSE, ignoreCase |-> FALSE]

\* the literal lit occurs in s at position p (1-based)
OccursAt(lit, s, p) ==
    /\ p >= 1
    /\ p + Len(lit) - 1 <= Len(s)
    /\ \A i \in 1..Len(lit) : s[p + i - 1] = lit[i]

\* RegExp.prototype.test
RegExpTest(re, s) ==
    IF re.dotStar THEN TRUE
    ELSE LET lit == IF re.ignoreCase THEN toLowerCase(re.value) ELSE re.value
             str == IF re.ignoreCase THEN toLowerCase(s) ELSE s
             positions == 1..(Len(str) - Len(lit) + 1)
         IN \E p \in positions :
                /\ OccursAt(lit, str, p)
                /\ re.start => p = 1
                /\ re.end => p + Len(lit) - 1 = Len(str)

\* (allowed) => typeof allowed === 'string' ? key === allowed : allowed.test(key)
AllowedMatches(allowed, key) ==
    IF allowed.type = "string" THEN key = allowed.value ELSE RegExpTest(allowed, key)

\* a variant that looks at the first entry only
SomeFirstEntry(list, key) ==
    IF list = <<>> THEN FALSE ELSE AllowedMatches(Head(list), key)

\* Array.prototype.some over the allow-list, left to right
RECURSIVE Some(_, _)
Some(list, key) ==
    IF list = <<>> THEN FALSE
    ELSE IF AllowedMatches(Head(list), key) THEN TRUE
    ELSE Some(Tail(list), key)


(***************************************************************************)
(* Optional values: <<>> is null / undefined, <<v>> is the value v.        *)
(***************************************************************************)
Null == <<>>
Some1(v) == <<v>>

(***************************************************************************)
(* The Headers object of a Request or Response.  It is built from a list   *)
(* of <<name, value>> pairs; names are stored lower-cased, keys() yields   *)
(* each stored name once, get(name) is case-insensitive and joins the      *)
(* values of a repeated name with ", ".                                    *)
(***************************************************************************)
RECURSIVE HeadersKeysFrom(_, _)
HeadersKeysFrom(raw, seen) ==
    IF raw = <<>> THEN <<>>
    ELSE LET k == toLowerCase(Head(raw)[1])
         IN IF k \in seen THEN HeadersKeysFrom(Tail(raw), seen)
            ELSE <<k>> \o HeadersKeysFrom(Tail(raw), seen \cup {k})

HeadersKeys(raw) == HeadersKeysFrom(raw, {})

RECURSIVE HeadersJoin(_, _, _)
HeadersJoin(raw, key, acc) ==
    IF raw = <<>> THEN acc
    ELSE IF toLowerCase(Head(raw)[1]) = key
         THEN HeadersJoin(Tail(raw), key,
                          IF acc = Null THEN Some1(Head(raw)[2])
                          ELSE Some1(acc[1] \o ", " \o Head(raw)[2]))
         ELSE HeadersJoin(Tail(raw), key, acc)

HeadersGet(raw, name) == HeadersJoin(raw, toLowerCase(name), Null)

(***************************************************************************)
(* URLSearchParams.toString: application/x-www-form-urlencoded.  Of the    *)
(* characters of the model only the space is changed (to "+").             *)
(***************************************************************************)
UrlEncodeChar(c) == IF c = " " THEN "+" ELSE c
UrlEncode(s) == [i \in 1..Len(s) |-> UrlEncodeChar(s[i])]

RECURSIVE SearchParamsToString(_)
SearchParamsToString(params) ==
    IF params = <<>> THEN <<>>
    ELSE UrlEncode(Head(params)[1]) \o <<"=">> \o UrlEncode(Head(params)[2])
         \o (IF Tail(params) = <<>> THEN <<>>
             ELSE <<"&">> \o SearchParamsToString(Tail(params)))

(***************************************************************************)
(* Number to string, as the template literal of the span name does it.     *)
(***************************************************************************)
Digits == <<"0","1","2","3","4","5","6","7","8","9">>

RECURSIVE NumberToString(_)
NumberToString(n) ==
    IF n < 10 THEN <<Digits[n + 1]>>
    ELSE NumberToString(n \div 10) \o <<Digits[(n % 10) + 1]>>


(***************************************************************************)
(* Inputs.  A trigger is what the caller passes to start: null, undefined, *)
(* a ScheduledEvent (it has a type field) or a Request (it has none).      *)
(***************************************************************************)
sCron == <<"0"," ","*"," ","*"," ","*"," ","*">>
sPath == <<"/","a","/","b">>
sGet == <<"G","E","T">>
sHttps == <<"h","t","t","p","s",":">>

NoUrl == [href |-> "", pathname |-> <<>>, host |-> "", hostname |-> "", port |-> "",
          protocol |-> <<>>, searchParams |-> <<>>]

Url(href, params) ==
    [href |-> href, pathname |-> sPath, host |-> "svc.example", hostname |-> "svc.example",
     port |-> "", protocol |-> sHttps, searchParams |-> params]

Trigger(kind, cron, time, method, url, headers) ==
    [kind |-> kind, cron |-> cron, scheduledTime |-> time,
     method |-> method, url |-> url, headers |-> headers]

NullTrigger == Trigger("null", Null, 0, <<>>, NoUrl, <<>>)
UndefinedTrigger == Trigger("undefined", Null, 0, <<>>, NoUrl, <<>>)
ScheduledEvent(cron, time) == Trigger("scheduled", cron, time, <<>>, NoUrl, <<>>)
Request(url, headers) == Trigger("request", Null, 0, sGet, url, headers)

\* the cron field: absent, the empty string, a cron expression
Crons == {Null, Some1(<<>>), Some1(sCron)}
ScheduledTimes == {17}

UrlNoQuery == Url("https://svc.example/a/b", <<>>)
UrlXY == Url("https://svc.example/a/b?x=1&y=2", << <<<<"x">>, <<"1">>>>, <<<<"y">>, <<"2">>>> >>)
UrlMany ==
    Url("https://svc.example/a/b?y=a+b&x=1&xy=&x=3",
        << <<<<"y">>, <<"a"," ","b">>>>, <<<<"x">>, <<"1">>>>,
           <<<<"x","y">>, <<>>>>, <<<<"x">>, <<"3">>>> >>)

HeadersNone == <<>>
HeadersUaCookie == << <<sUserAgentMixed, "UA1">>, <<sCookieMixed, "secret">> >>
HeadersMany ==
    << <<sCfRay, "r1">>, <<sXA, "1">>, <<sSetCookie, "s1">>, <<sXAUpper, "2">> >>

Requests ==
    { Request(UrlNoQuery, HeadersMany), Request(UrlXY, HeadersUaCookie),
      Request(UrlMany, HeadersNone) }

Triggers ==
    {NullTrigger, UndefinedTrigger}
    \cup {ScheduledEvent(c, t) : c \in Crons, t \in ScheduledTimes}
    \cup Requests

Responses ==
    { [status |-> 500, headers |-> << <<sSetCookieMixed, "sid=1">>, <<sCfRay, "r2">> >>],
      [status |-> 200, headers |-> << <<sXA, "3">>, <<sCookie, "c2">> >>] }

\* values the caller assigns to the public field allowedHeaders
DefaultAllowedHeaders == <<Str(sUserAgent), Str(sCfRay)>>
HeaderAllowLists ==
    { DefaultAllowedHeaders,
      <<ReDotStar>>,
      <<Str(sXAUpper), Str(sCookie), Re(sSetCookieMixed, FALSE, TRUE, TRUE),
        Re(<<"x","-">>, TRUE, FALSE, FALSE)>> }

\* values the caller assigns to the public field allowedSearch: a RegExp or an array
SearchRegExp(re) == [isArray |-> FALSE, regexp |-> re, entries |-> <<>>]
SearchArray(list) == [isArray |-> TRUE, regexp |-> ReDotStar, entries |-> list]
DefaultAllowedSearch == SearchRegExp(ReDotStar)
SearchAllowLists ==
    { DefaultAllowedSearch,
      SearchArray(<<Str(<<"x">>)>>),
      SearchArray(<<Str(<<"z">>), Re(<<"y">>, FALSE, TRUE, FALSE)>>) }


(***************************************************************************)
(* The span: the calls the code makes on it.  attributes holds the         *)
(* attributes with a fixed name (keyed by the name), headerAttributes the  *)
(* header-derived ones (keyed by the name as a character sequence);        *)
(* endTimes lists the argument of every span.end call.                     *)
(***************************************************************************)
NoSpan == [name |-> <<>>, kind |-> "", root |-> FALSE, startTime |-> 0,
           attributes |-> <<>>, headerAttributes |-> <<>>,
           endTimes |-> <<>>, exceptions |-> 0]

SetAttribute(attrs, key, value) ==
    [k \in (DOMAIN attrs) \cup {key} |-> IF k = key THEN value ELSE attrs[k]]

\* Date.now(), in units of 0.01 ms, when the clock shows `ms` milliseconds
TicksPerMs == 100
DateNow(ms) == ms * TicksPerMs

\* 'type' in eventOrRequest throws a TypeError when the right operand is no object
InThrows(t) == t.kind \in {"null", "undefined"}
HasType(t) == t.kind = "scheduled"
\* !eventOrRequest
Falsy(t) == t.kind \in {"null", "undefined"}

\* scheduledEvent.cron ?? scheduledEvent.scheduledTime
CronOrTime(t) == IF t.cron # Null THEN t.cron[1] ELSE NumberToString(t.scheduledTime)
\* if (scheduledEvent.cron)
CronTruthy(t) == t.cron # Null /\ t.cron[1] # <<>>

SpanName(t) ==
    IF HasType(t) THEN sScheduled \o CronOrTime(t)
    ELSE sFetch \o t.method \o <<" ">> \o t.url.pathname

SpanKind(t) == IF HasType(t) THEN "SERVER" ELSE "INTERNAL"

\* the test of one query key against allowedSearch
SearchAllowed(allowedSearch, key) ==
    IF allowedSearch.isArray THEN Some(allowedSearch.entries, key)
    ELSE RegExpTest(allowedSearch.regexp, key)

\* the loop over url.searchParams, appending the allowed pairs
RECURSIVE FilterSearch(_, _, _)
FilterSearch(params, allowedSearch, acc) ==
    IF params = <<>> THEN acc
    ELSE FilterSearch(Tail(params), allowedSearch,
                      IF SearchAllowed(allowedSearch, Head(params)[1])
                      THEN Append(acc, Head(params)) ELSE acc)

\* a variant that writes the "?" even when no parameter is left
TargetAlwaysQuery(url, allowedSearch) ==
    url.pathname \o <<"?">>
        \o SearchParamsToString(FilterSearch(url.searchParams, allowedSearch, <<>>))

Target(url, allowedSearch) ==
    LET search == SearchParamsToString(FilterSearch(url.searchParams, allowedSearch, <<>>))
    IN url.pathname \o (IF search = <<>> THEN <<>> ELSE <<"?">> \o search)

\* a variant of the loop below without the test for 'cookie'
RECURSIVE RequestHeaderAttributesNoSkip(_, _, _, _)
RequestHeaderAttributesNoSkip(keys, raw, allowedHeaders, attrs) ==
    IF keys = <<>> THEN attrs
    ELSE LET headerKey == Head(keys)
         IN IF ~Some(allowedHeaders, headerKey)
            THEN RequestHeaderAttributesNoSkip(Tail(keys), raw, allowedHeaders, attrs)
            ELSE RequestHeaderAttributesNoSkip(Tail(keys), raw, allowedHeaders,
                     SetAttribute(attrs, sRequestHeaderPrefix \o toLowerCase(headerKey),
                                  <<HeadersGet(raw, headerKey)>>))

\* the loop over request.headers.keys()
RECURSIVE RequestHeaderAttributes(_, _, _, _)
RequestHeaderAttributes(keys, raw, allowedHeaders, attrs) ==
    IF keys = <<>> THEN attrs
    ELSE LET headerKey == Head(keys)
         IN IF headerKey = sCookie
            THEN RequestHeaderAttributes(Tail(keys), raw, allowedHeaders, attrs)
            ELSE IF ~Some(allowedHeaders, headerKey)
            THEN RequestHeaderAttributes(Tail(keys), raw, allowedHeaders, attrs)
            ELSE RequestHeaderAttributes(Tail(keys), raw, allowedHeaders,
                     SetAttribute(attrs, sRequestHeaderPrefix \o toLowerCase(headerKey),
                                  <<HeadersGet(raw, headerKey)>>))

\* the loop over response.headers.keys()
RECURSIVE ResponseHeaderAttributes(_, _, _, _)
ResponseHeaderAttributes(keys, raw, allowedHeaders, attrs) ==
    IF keys = <<>> THEN attrs
    ELSE LET headerKey == Head(keys)
         IN IF headerKey = sSetCookie
            THEN ResponseHeaderAttributes(Tail(keys), raw, allowedHeaders, attrs)
            ELSE IF ~Some(allowedHeaders, headerKey)
            THEN ResponseHeaderAttributes(Tail(keys), raw, allowedHeaders, attrs)
            ELSE ResponseHeaderAttributes(Tail(keys), raw, allowedHeaders,
                     SetAttribute(attrs, sResponseHeaderPrefix \o toLowerCase(headerKey),
                                  <<HeadersGet(raw, headerKey)>>))

ScheduledAttributes(t) ==
    LET a1 == SetAttribute(<<>>, "faas.trigger", "timer")
        a2 == SetAttribute(a1, "faas.time", t.scheduledTime)
    IN IF CronTruthy(t) THEN SetAttribute(a2, "faas.cron", t.cron[1]) ELSE a2

RequestAttributes(t, allowedSearch) ==
    [k \in {"http.method", "http.url", "http.target", "http.host", "net.host.name",
            "net.host.port", "http.scheme", "http.user_agent", "net.peer.ip",
            "http.client_ip"} |->
        CASE k = "http.method" -> t.method
          [] k = "http.url" -> t.url.href
          [] k = "http.target" -> Target(t.url, allowedSearch)
          [] k = "http.host" -> t.url.host
          [] k = "net.host.name" -> t.url.hostname
          [] k = "net.host.port" -> t.url.port
          [] k = "http.scheme" -> SubSeq(t.url.protocol, 1, Len(t.url.protocol) - 1)
          [] k = "http.user_agent" -> HeadersGet(t.headers, sUserAgent)
          [] k = "net.peer.ip" -> HeadersGet(t.headers, sCfConnectingIp)
          [] k = "http.client_ip" -> HeadersGet(t.headers, sCfConnectingIp)]

\* getSpan: the error thrown ("" when none) and the span returned
GetSpan(t, allowedHeaders, allowedSearch, ms) ==
    IF InThrows(t) THEN [thrown |-> sInTypeError, span |-> NoSpan]
    ELSE IF ~HasType(t) /\ Falsy(t) THEN [thrown |-> sInputRequired, span |-> NoSpan]
    ELSE [thrown |-> "",
          span |-> [name |-> SpanName(t), kind |-> SpanKind(t), root |-> TRUE,
                    startTime |-> DateNow(ms),
                    attributes |-> IF HasType(t) THEN ScheduledAttributes(t)
                                   ELSE RequestAttributes(t, allowedSearch),
                    headerAttributes |->
                        IF HasType(t) THEN <<>>
                        ELSE RequestHeaderAttributes(HeadersKeys(t.headers), t.headers,
                                                     allowedHeaders, <<>>),
                    endTimes |-> <<>>, exceptions |-> 0]]


(***************************************************************************)
(* State.                                                                  *)
(***************************************************************************)
VARIABLES
    allowedHeaders,   \* WorkersSDK.allowedHeaders
    allowedSearch,    \* WorkersSDK.allowedSearch
    now,              \* the clock, in whole milliseconds
    pc,               \* "idle": start not called; "failed": start threw;
                      \* "running": start returned a WorkerInstance
    started,          \* what the start call was given and read
    thrown,           \* the error start threw ("" when none)
    span,             \* WorkerInstance.span
    instance,         \* WorkerInstance.flushed, WorkerInstance.startTime
    waitUntilCalls,   \* promises handed to context.waitUntil
    sdkEndCalls,      \* calls of WorkersSDK.end (spanProcessor.forceFlush)
    history,          \* the calls made on the instance, in order
    lastCall          \* the last call on the instance: what it was given, did and returned

vars == <<allowedHeaders, allowedSearch, now, pc, started, thrown, span, instance,
          waitUntilCalls, sdkEndCalls, history, lastCall>>

NoResponse == [status |-> 0, headers |-> <<>>]
NoCall == [op |-> "none", effects |-> <<>>, response |-> NoResponse, returned |-> Null,
           allowedHeaders |-> <<>>, spanBefore |-> NoSpan]
NoStart == [trigger |-> NullTrigger, allowedHeaders |-> <<>>,
            allowedSearch |-> DefaultAllowedSearch]

Init ==
    /\ allowedHeaders = DefaultAllowedHeaders
    /\ allowedSearch = DefaultAllowedSearch
    /\ now = 0
    /\ pc = "idle"
    /\ started = NoStart
    /\ thrown = ""
    /\ span = NoSpan
    /\ instance = [flushed |-> FALSE, startTime |-> 0]
    /\ waitUntilCalls = 0
    /\ sdkEndCalls = 0
    /\ history = <<>>
    /\ lastCall = NoCall

\* the caller assigns the public field allowedHeaders (while a later call can still
\* read it)
SetAllowedHeaders(list) ==
    /\ pc # "failed"
    /\ Len(history) < MaxCalls
    /\ allowedHeaders # list
    /\ allowedHeaders' = list
    /\ UNCHANGED <<allowedSearch, now, pc, started, thrown, span, instance,
                   waitUntilCalls, sdkEndCalls, history, lastCall>>

\* the caller assigns the public field allowedSearch (only getSpan reads it)
SetAllowedSearch(value) ==
    /\ pc = "idle"
    /\ allowedSearch # value
    /\ allowedSearch' = value
    /\ UNCHANGED <<allowedHeaders, now, pc, started, thrown, span, instance,
                   waitUntilCalls, sdkEndCalls, history, lastCall>>

\* a millisecond passes between two calls on the instance
Tick ==
    /\ pc = "running"
    /\ Len(history) < MaxCalls
    /\ now < MaxClock
    /\ now' = now + 1
    /\ UNCHANGED <<allowedHeaders, allowedSearch, pc, started, thrown, span, instance,
                   waitUntilCalls, sdkEndCalls, history, lastCall>>

\* WorkersSDK.start: getSpan, then new WorkerInstance; `elapsed` milliseconds pass
\* between the Date.now() of getSpan and the Date.now() of the field initialiser
Start(t, elapsed) ==
    /\ pc = "idle"
    /\ now + elapsed <= MaxClock
    /\ LET got == GetSpan(t, allowedHeaders, allowedSearch, now)
       IN /\ thrown' = got.thrown
          /\ span' = got.span
          /\ IF got.thrown # ""
             THEN /\ pc' = "failed"
                  /\ UNCHANGED <<now, instance>>
             ELSE /\ pc' = "running"
                  /\ now' = now + elapsed
                  /\ instance' = [flushed |-> FALSE, startTime |-> DateNow(now + elapsed)]
    /\ started' = [trigger |-> t, allowedHeaders |-> allowedHeaders,
                   allowedSearch |-> allowedSearch]
    /\ UNCHANGED <<allowedHeaders, allowedSearch, waitUntilCalls, sdkEndCalls,
                   history, lastCall>>

\* WorkerInstance.fetch
Fetch ==
    /\ pc = "running"
    /\ Len(history) < MaxCalls
    /\ history' = Append(history, "fetch")
    /\ lastCall' = [NoCall EXCEPT
                      !.op = "fetch",
                      !.effects = (IF instance.flushed THEN <<"console.warn">> ELSE <<>>)
                                  \o <<"globalThis.fetch">>,
                      !.spanBefore = span]
    /\ UNCHANGED <<allowedHeaders, allowedSearch, now, pc, started, thrown, span,
                   instance, waitUntilCalls, sdkEndCalls>>

\* let endTime = Date.now(); if (this.startTime === endTime) endTime += 0.01
Nudge == 1
\* a variant without the nudge
EndTimeNoNudge(startTime, ms) == DateNow(ms)

EndTime(startTime, ms) ==
    IF startTime = DateNow(ms) THEN DateNow(ms) + Nudge ELSE DateNow(ms)

\* a variant of sendResponse that ends and flushes the span only the first time
SendResponseOnce(response) ==
    /\ pc = "running"
    /\ Len(history) < MaxCalls
    /\ history' = Append(history, "sendResponse")
    /\ span' = [span EXCEPT
                  !.attributes = SetAttribute(@, "http.status_code", response.status),
                  !.headerAttributes =
                      ResponseHeaderAttributes(HeadersKeys(response.headers),
                                               response.headers, allowedHeaders, @),
                  !.endTimes = IF @ = <<>>
                               THEN Append(@, EndTime(instance.startTime, now)) ELSE @]
    /\ sdkEndCalls' = IF span.endTimes = <<>> THEN sdkEndCalls + 1 ELSE sdkEndCalls
    /\ waitUntilCalls' = IF span.endTimes = <<>> THEN waitUntilCalls + 1 ELSE waitUntilCalls
    /\ lastCall' = [op |-> "sendResponse",
                    effects |-> IF span.endTimes = <<>>
                                THEN <<"span.setAttributes", "span.end", "sdk.end",
                                       "context.waitUntil">>
                                ELSE <<"span.setAttributes">>,
                    response |-> response, returned |-> Some1(response),
                    allowedHeaders |-> allowedHeaders, spanBefore |-> span]
    /\ UNCHANGED <<allowedHeaders, allowedSearch, now, pc, started, thrown, instance>>

\* WorkerInstance.sendResponse
SendResponse(response) ==
    /\ pc = "running"
    /\ Len(history) < MaxCalls
    /\ history' = Append(history, "sendResponse")
    /\ span' = [span EXCEPT
                  !.attributes = SetAttribute(@, "http.status_code", response.status),
                  !.headerAttributes =
                      ResponseHeaderAttributes(HeadersKeys(response.headers),
                                               response.headers, allowedHeaders, @),
                  !.endTimes = Append(@, EndTime(instance.startTime, now))]
    /\ sdkEndCalls' = sdkEndCalls + 1
    /\ waitUntilCalls' = waitUntilCalls + 1
    /\ lastCall' = [op |-> "sendResponse",
                    effects |-> <<"span.setAttributes", "span.end", "sdk.end",
                                  "context.waitUntil">>,
                    response |-> response, returned |-> Some1(response),
                    allowedHeaders |-> allowedHeaders, spanBefore |-> span]
    /\ UNCHANGED <<allowedHeaders, allowedSearch, now, pc, started, thrown, instance>>

\* WorkerInstance.captureException
CaptureException ==
    /\ pc = "running"
    /\ Len(history) < MaxCalls
    /\ history' = Append(history, "captureException")
    /\ span' = [span EXCEPT
                  !.exceptions = @ + 1,
                  !.endTimes = Append(@, EndTime(instance.startTime, now))]
    /\ sdkEndCalls' = sdkEndCalls + 1
    /\ waitUntilCalls' = waitUntilCalls + 1
    /\ lastCall' = [NoCall EXCEPT
                      !.op = "captureException",
                      !.effects = <<"span.recordException", "span.end", "sdk.end",
                                    "context.waitUntil">>,
                      !.spanBefore = span]
    /\ UNCHANGED <<allowedHeaders, allowedSearch, now, pc, started, thrown, instance>>

Next ==
    \/ \E list \in HeaderAllowLists : SetAllowedHeaders(list)
    \/ \E value \in SearchAllowLists : SetAllowedSearch(value)
    \/ Tick
    \/ \E t \in Triggers, elapsed \in 0..1 : Start(t, elapsed)
    \/ Fetch
    \/ \E response \in Responses : SendResponse(response)
    \/ CaptureException

Spec == Init /\ [][Next]_vars


(***************************************************************************)
(* The properties.                                                         *)
(***************************************************************************)
OutcomeOps == {"sendResponse", "captureException"}
OutcomeCalls == Cardinality({i \in 1..Len(history) : history[i] \in OutcomeOps})
Occurrences(seq, x) == Cardinality({i \in 1..Len(seq) : seq[i] = x})
IndexOf(seq, x) == CHOOSE i \in 1..Len(seq) : seq[i] = x
IsRequestStart == pc = "running" /\ started.trigger.kind = "request"
IsScheduledStart == pc = "running" /\ started.trigger.kind = "scheduled"

\* an entry of an allow-list admits a key: equal string, or matching pattern
EntryAdmits(entry, key) ==
    \/ entry.type = "string" /\ entry.value = key
    \/ entry.type = "RegExp" /\ RegExpTest(entry, key)
ListAdmits(list, key) == \E i \in 1..Len(list) : EntryAdmits(list[i], key)
SearchAdmits(allowList, key) ==
    IF allowList.isArray THEN ListAdmits(allowList.entries, key)
    ELSE RegExpTest(allowList.regexp, key)
HeaderNames(raw) == {toLowerCase(raw[i][1]) : i \in 1..Len(raw)}
HasPrefix(s, prefix) == Len(s) >= Len(prefix) /\ SubSeq(s, 1, Len(prefix)) = prefix

\* C1: on every sequence of calls the span is ended exactly once and the flush is
\* handed to waitUntil exactly once: never a second end, never a second flush, and
\* one of each as soon as an outcome call was made.
C1_EndedAndFlushedExactlyOnce ==
    /\ Len(span.endTimes) <= 1
    /\ waitUntilCalls <= 1
    /\ sdkEndCalls <= 1
    /\ OutcomeCalls > 0 => (Len(span.endTimes) = 1 /\ waitUntilCalls = 1)

\* C2: every fetch performs the network fetch; a fetch made after sendResponse or
\* captureException emits the warning, a fetch made before any outcome call does not.
C2_FetchAfterOutcomeWarns ==
    lastCall.op = "fetch" =>
        /\ Occurrences(lastCall.effects, "globalThis.fetch") = 1
        /\ (Occurrences(lastCall.effects, "console.warn") = 1)
               <=> (lastCall.spanBefore.endTimes # <<>>)

\* C3: whatever the header allow-list, the span never gets the attribute
\* http.request.header.cookie nor the attribute http.response.header.set-cookie.
C3_NoCookieAttributes ==
    /\ (sRequestHeaderPrefix \o sCookie) \notin DOMAIN span.headerAttributes
    /\ (sResponseHeaderPrefix \o sSetCookie) \notin DOMAIN span.headerAttributes

\* a request with a Cookie header was started under an allow-list admitting cookie,
\* and a response with a Set-Cookie header was sent under one admitting set-cookie
C3_Witness ==
    /\ IsRequestStart
    /\ sCookie \in HeaderNames(started.trigger.headers)
    /\ ListAdmits(started.allowedHeaders, sCookie)
    /\ lastCall.op = "sendResponse"
    /\ sSetCookie \in HeaderNames(lastCall.response.headers)
    /\ ListAdmits(lastCall.allowedHeaders, sSetCookie)

\* C4: the span is a root span, of kind SERVER for a request trigger and of kind
\* INTERNAL for a scheduled trigger.
C4_KindByTrigger ==
    pc = "running" =>
        /\ span.root
        /\ span.kind = (IF started.trigger.kind = "request" THEN "SERVER" ELSE "INTERNAL")

\* C5: for a request trigger, http.target is the path followed by the query
\* parameters whose key the query allow-list admits, in their original order and
\* with repeated keys kept, and it holds no "?" when no parameter is admitted.
C5_TargetKeepsAllowedParams ==
    IsRequestStart =>
        LET url == started.trigger.url
            admitted(pair) == SearchAdmits(started.allowedSearch, pair[1])
            kept == SelectSeq(url.searchParams, admitted)
            target == span.attributes["http.target"]
        IN /\ target = url.pathname
                        \o (IF kept = <<>> THEN <<>>
                            ELSE <<"?">> \o SearchParamsToString(kept))
           /\ kept = <<>> => \A i \in 1..Len(target) : target[i] # "?"

\* y=a+b&x=1&xy=&x=3 under the allow-list ["x"]: both x parameters are kept, in order
C5_Witness ==
    /\ IsRequestStart
    /\ started.trigger.url = UrlMany
    /\ started.allowedSearch = SearchArray(<<Str(<<"x">>)>>)
    /\ span.attributes["http.target"] =
           <<"/","a","/","b","?","x","=","1","&","x","=","3">>

\* C6: every end time passed to span.end is greater than the span's start time;
\* when the outcome call reads the clock tick the span was created at, the end
\* time is that tick plus 0.01 ms.
C6_EndAfterStart ==
    \A i \in 1..Len(span.endTimes) :
        /\ span.endTimes[i] > span.startTime
        /\ (span.endTimes[i] \div TicksPerMs) * TicksPerMs = span.startTime
               => span.endTimes[i] = span.startTime + Nudge

\* span creation, instance construction and the outcome call read the same tick
C6_Witness ==
    /\ pc = "running"
    /\ span.startTime = instance.startTime
    /\ Len(span.endTimes) = 1
    /\ span.endTimes[1] = span.startTime + Nudge

\* C7: start with a null or absent request fails with the input-required error and
\* starts no span; start with a scheduled trigger or a request does not fail.
C7_NullRequestInputRequired ==
    pc # "idle" =>
        IF started.trigger.kind \in {"null", "undefined"}
        THEN pc = "failed" /\ thrown = sInputRequired /\ span = NoSpan
        ELSE pc = "running" /\ thrown = ""

\* C8: every outcome call ends the span once and then hands one flush promise to
\* waitUntil, so after n outcome calls the span was ended n times and the flush
\* triggered n times; sendResponse returns the response it was given.
C8_EachOutcomeEndsThenFlushes ==
    /\ Len(span.endTimes) = OutcomeCalls
    /\ sdkEndCalls = OutcomeCalls
    /\ waitUntilCalls = OutcomeCalls
    /\ lastCall.op \in OutcomeOps =>
           /\ Occurrences(lastCall.effects, "span.end") = 1
           /\ Occurrences(lastCall.effects, "context.waitUntil") = 1
           /\ IndexOf(lastCall.effects, "span.end")
                  < IndexOf(lastCall.effects, "context.waitUntil")
           /\ Len(span.endTimes) = Len(lastCall.spanBefore.endTimes) + 1
    /\ lastCall.op = "sendResponse" => lastCall.returned = Some1(lastCall.response)

\* sendResponse was called twice
C8_Witness ==
    /\ history = <<"sendResponse", "sendResponse">>
    /\ Len(span.endTimes) = 2
    /\ waitUntilCalls = 2

\* C9: for a scheduled trigger the name is "scheduled " plus the cron expression
\* when there is one (the empty string included) and plus the scheduled time
\* otherwise; faas.cron is set exactly when the name uses the cron expression;
\* faas.trigger and faas.time are always set.
C9_CronNameIffAttribute ==
    IsScheduledStart =>
        LET t == started.trigger
            present == t.cron # Null
        IN /\ span.name = sScheduled
                  \o (IF present THEN t.cron[1] ELSE NumberToString(t.scheduledTime))
           /\ ("faas.cron" \in DOMAIN span.attributes) <=> present
           /\ span.attributes["faas.trigger"] = "timer"
           /\ span.attributes["faas.time"] = t.scheduledTime

\* the header attributes the rule asks for: one per admitted, not excluded key
ExpectedHeaderNames(raw, allowList, excluded, prefix) ==
    {prefix \o k : k \in {h \in HeaderNames(raw) : h # excluded /\ ListAdmits(allowList, h)}}

\* C10: a header attribute is recorded if and only if the key is not the excluded
\* name and some entry of the header allow-list admits it; start applies this to
\* the request headers and sendResponse to the response headers, with the allow-list
\* current at the call; the name is the prefix plus the lower-cased key, the value
\* a one-element sequence; the default allow-list records user-agent and cf-ray only.
C10_HeaderAttributesFollowAllowList ==
    /\ IsRequestStart =>
           LET raw == started.trigger.headers
               recorded == {n \in DOMAIN span.headerAttributes :
                                HasPrefix(n, sRequestHeaderPrefix)}
           IN /\ recorded = ExpectedHeaderNames(raw, started.allowedHeaders, sCookie,
                                                sRequestHeaderPrefix)
              /\ \A k \in HeaderNames(raw) :
                     (sRequestHeaderPrefix \o k) \in recorded =>
                         span.headerAttributes[sRequestHeaderPrefix \o k]
                             = <<HeadersGet(raw, k)>>
              /\ started.allowedHeaders = DefaultAllowedHeaders =>
                     recorded \subseteq {sRequestHeaderPrefix \o sUserAgent,
                                         sRequestHeaderPrefix \o sCfRay}
    /\ lastCall.op = "sendResponse" =>
           LET raw == lastCall.response.headers
               before == lastCall.spanBefore.headerAttributes
               expected == ExpectedHeaderNames(raw, lastCall.allowedHeaders, sSetCookie,
                                               sResponseHeaderPrefix)
           IN /\ DOMAIN span.headerAttributes = (DOMAIN before) \cup expected
              /\ \A n \in (DOMAIN before) \ expected :
                     span.headerAttributes[n] = before[n]
              /\ \A k \in HeaderNames(raw) :
                     (sResponseHeaderPrefix \o k) \in expected =>
                         span.headerAttributes[sResponseHeaderPrefix \o k]
                             = <<HeadersGet(raw, k)>>
              /\ lastCall.allowedHeaders = DefaultAllowedHeaders =>
                     (DOMAIN span.headerAttributes) \ (DOMAIN before)
                         \subseteq {sResponseHeaderPrefix \o sUserAgent,
                                    sResponseHeaderPrefix \o sCfRay}

\* a request header admitted by a pattern that is not the first entry was recorded
\* at start, the allow-list was then changed, and a response header was recorded
C10_Witness ==
    /\ IsRequestStart
    /\ (sRequestHeaderPrefix \o sXA) \in DOMAIN span.headerAttributes
    /\ started.allowedHeaders # lastCall.allowedHeaders
    /\ lastCall.op = "sendResponse"
    /\ (sResponseHeaderPrefix \o sCfRay) \in DOMAIN span.headerAttributes
    /\ (sResponseHeaderPrefix \o sCookie) \notin DOMAIN span.headerAttributes

====
